---- MODULE Spec2Model ----
(***************************************************************************)
(* Resource-tree resolver and relationship-wiring engine of                *)
(* diagrams_as_code/entrypoint.py.                                         *)
(*                                                                         *)
(* The process is long lived (api.py serves entrypoint from a Flask        *)
(* route): a run of entrypoint walks one document with process_resource,   *)
(* then wires the backlog, then resets the two module globals.  An         *)
(* exception leaves entrypoint through the `with Diagram` block and the    *)
(* process goes on to the next run.                                        *)
(***************************************************************************)
EXTENDS Integers, Sequences, FiniteSets, TLC

\* ------------------------------------------------------------------ bounds

\* A document holds at most MaxSize resources and relations together, and
\* the objects and relationship records a failed run leaves behind count
\* against the size of the next document.
MaxSize == 4

\* A resource declares at most MaxRelates relations.
MaxRelates == 2

\* ------------------------------------------------------------- vocabulary

None == 0

CLUSTER == "CLUSTER"
GROUP == "GROUP"

INCOMING == "INCOMING"
OUTGOING == "OUTGOING"
BIDIRECTIONAL == "BIDIRECTIONAL"
UNDIRECTED == "UNDIRECTED"

RelationDirection == {INCOMING, OUTGOING, BIDIRECTIONAL, UNDIRECTED}

\* Local identifiers of resources.  The first resource of every list of a
\* document is named "a"; a later one is named "a" again or "b".
FirstIds == {"a"}
Ids == {"a", "b"}

\* Document-local targets of relations (dotted paths of local identifiers).
Targets == {"a", "a.b"}

\* Type paths of leaf resources: the first is in the element catalog, the
\* second names a class the module diagrams.aws.compute does not have.
KnownTypes == {"aws.compute.EC2"}
LeafTypes == KnownTypes \cup {"aws.compute.Nope"}

\* Presentation hints of a relation; the documents pair them with the
\* direction so that relations of different directions differ in all three.
HintsOf(direction) ==
    IF direction \in {INCOMING, BIDIRECTIONAL}
    THEN [label |-> "reads", color |-> "red", style |-> "dashed"]
    ELSE [label |-> "writes", color |-> "blue", style |-> "bold"]

\* A relation declaration of a document.
RelationDecls ==
    { [to |-> t, direction |-> d, label |-> HintsOf(d).label,
       color |-> HintsOf(d).color, style |-> HintsOf(d).style] :
        t \in Targets, d \in RelationDirection }

Min(x, y) == IF x < y THEN x ELSE y

RECURSIVE TreesOf(_, _), ForestsOf(_), RestOf(_)

\* The resource declarations that hold w resources and relations together,
\* named from ids.  `of` and `relates` are sequences; an absent one is the
\* empty sequence.
TreesOf(w, ids) ==
    UNION { UNION {
        { [id |-> i, type |-> to[1], of |-> to[2], relates |-> rs] :
            i \in ids,
            rs \in [1..k -> RelationDecls],
            to \in ({CLUSTER, GROUP} \X ForestsOf(w - 1 - k))
                   \cup (IF w - 1 - k = 0 THEN LeafTypes \X {<<>>} ELSE {}) }
        } : k \in 0..Min(MaxRelates, w - 1) }

\* The resources that follow the first one in a list, of total size w.
RestOf(w) ==
    IF w = 0 THEN {<<>>}
    ELSE UNION { { <<t>> \o f : t \in TreesOf(a, Ids), f \in RestOf(w - a) } :
                 a \in 1..w }

\* The lists of resource declarations of total size w.
ForestsOf(w) ==
    IF w = 0 THEN {<<>>}
    ELSE UNION { { <<t>> \o f : t \in TreesOf(a, FirstIds), f \in RestOf(w - a) } :
                 a \in 1..w }

\* diagram.resources of the documents, by size.
DocsBySize == [w \in 0..MaxSize |-> ForestsOf(w)]

\* ------------------------------------------------------------------ state

VARIABLES
    pc,             \* where the process is: idle, walk, wire, done, failed
    error,          \* the exception entrypoint raised ("" when none)
    doc,            \* diagram.resources of the current run
    stack,          \* the active loops over resources, innermost last
    resources,      \* the module global `resources`: identifier -> handle
    relationships,  \* the module global `relationships`
    heap,           \* the DiagramGroup and Node objects, by handle
    began,          \* what the run found in the globals when it started
    opens,          \* cluster.__enter__ calls of the run
    closes,         \* cluster.__exit__ calls of the run
    connectors,     \* the Edge objects the run constructed, in order
    ops,            \* the attachment calls of the run, in order
    wireIdx         \* position of the wiring loop in `relationships`

vars == <<pc, error, doc, stack, resources, relationships, heap, began,
          opens, closes, connectors, ops, wireIdx>>

\* ---------------------------------------------------------------- helpers

\* f'{parent_id}.{resource.id}'
ResolvedId(parent_id, id) == parent_id \o "." \o id

\* f'diagram.{relation.to}'
TargetId(to) == "diagram." \o to

\* Relationship(from_=..., to=..., direction=..., label=..., color=..., style=...)
Relationship(from, relation) ==
    [from_ |-> from, to |-> TargetId(relation.to),
     direction |-> relation.direction, label |-> relation.label,
     color |-> relation.color, style |-> relation.style]

\* RelatesOf with from_ the identifier of the parent, not of the resource.
RelatesOfParent(resource, parent_id) ==
    [k \in 1..Len(resource.relates) |->
        Relationship(parent_id, resource.relates[k])]

\* RelatesOf with each record put in front of the ones before it.
RelatesOfReversed(resource, parent_id) ==
    [k \in 1..Len(resource.relates) |->
        Relationship(ResolvedId(parent_id, resource.id),
                     resource.relates[Len(resource.relates) + 1 - k])]

\* The records the loop over resource.relates appends, in order.
RelatesOf(resource, parent_id) ==
    [k \in 1..Len(resource.relates) |->
        Relationship(ResolvedId(parent_id, resource.id), resource.relates[k])]

\* resources.update({key: handle})
Update(ns, key, handle) ==
    [k \in (DOMAIN ns) \cup {key} |-> IF k = key THEN handle ELSE ns[k]]

\* resources.get(key)
Get(ns, key) == IF key \in DOMAIN ns THEN ns[key] ELSE None

\* DiagramGroup(): an empty ordered collection of nodes.
NewGroup == [kind |-> "group", nodes |-> <<>>, cls |-> GROUP]

\* get_diagram_node_class(path)(label=name)
NewNode(type) == [kind |-> "node", nodes |-> <<>>, cls |-> type]

\* group.add_node(node): append to the group's collection.
AddNode(h, group, node) ==
    IF group = None THEN h
    ELSE [h EXCEPT ![group].nodes = Append(@, node)]

\* isinstance(instance, DiagramGroup)
IsGroup(h, instance) == instance # None /\ h[instance].kind = "group"

\* Edge(label=relationship.label, color=relationship.color, style=relationship.style)
Edge(relationship) ==
    [label |-> relationship.label, color |-> relationship.color,
     style |-> relationship.style]

\* The operands of an attachment call: a node, the connector, a list of
\* nodes (group.get_nodes()), or the list of edges that the connector's
\* batch call on a list of nodes returned.
NodeRef(node) == [kind |-> "node", nodes |-> <<node>>, edge |-> 0]
EdgeRef(edge) == [kind |-> "edge", nodes |-> <<>>, edge |-> edge]
NodeList(nodes) == [kind |-> "nodes", nodes |-> nodes, edge |-> 0]
EdgeList(edge, nodes) == [kind |-> "edges", nodes |-> nodes, edge |-> edge]

\* receiver.method(other=other)
Call(receiver, method, other) ==
    [recv |-> receiver, method |-> method, other |-> other]

\* group.get_nodes()
GetNodes(h, group) == h[group].nodes

\* NodeToNode with the BIDIRECTIONAL branch a copy of the OUTGOING one.
NodeToNodeCopied(direction, from, to, edge) ==
    CASE direction = INCOMING ->
            << Call(NodeRef(from), "__lshift__", EdgeRef(edge)),
               Call(EdgeRef(edge), "__lshift__", NodeRef(to)) >>
      [] direction \in {OUTGOING, BIDIRECTIONAL} ->
            << Call(NodeRef(from), "__rshift__", EdgeRef(edge)),
               Call(EdgeRef(edge), "__rshift__", NodeRef(to)) >>
      [] direction = UNDIRECTED ->
            << Call(NodeRef(from), "__sub__", EdgeRef(edge)),
               Call(EdgeRef(edge), "__sub__", NodeRef(to)) >>
      [] OTHER -> << >>

\* The calls of the branch `is_resource_from_node and is_resource_to_node`.
NodeToNode(direction, from, to, edge) ==
    CASE direction = INCOMING ->
            << Call(NodeRef(from), "__lshift__", EdgeRef(edge)),
               Call(EdgeRef(edge), "__lshift__", NodeRef(to)) >>
      [] direction = OUTGOING ->
            << Call(NodeRef(from), "__rshift__", EdgeRef(edge)),
               Call(EdgeRef(edge), "__rshift__", NodeRef(to)) >>
      [] direction = BIDIRECTIONAL ->
            << Call(NodeRef(from), "__rshift__", EdgeRef(edge)),
               Call(EdgeRef(edge), "__lshift__", NodeRef(to)) >>
      [] direction = UNDIRECTED ->
            << Call(NodeRef(from), "__sub__", EdgeRef(edge)),
               Call(EdgeRef(edge), "__sub__", NodeRef(to)) >>
      [] OTHER -> << >>

\* GroupToNode with the BIDIRECTIONAL branch a copy of the OUTGOING one.
GroupToNodeCopied(direction, group_nodes, to, edge) ==
    CASE direction = INCOMING ->
            << Call(EdgeRef(edge), "__rlshift__", NodeList(group_nodes)),
               Call(NodeRef(to), "__rlshift__", EdgeList(edge, group_nodes)) >>
      [] direction \in {OUTGOING, BIDIRECTIONAL} ->
            << Call(EdgeRef(edge), "__rrshift__", NodeList(group_nodes)),
               Call(NodeRef(to), "__rrshift__", EdgeList(edge, group_nodes)) >>
      [] direction = UNDIRECTED ->
            << Call(EdgeRef(edge), "__rsub__", NodeList(group_nodes)),
               Call(NodeRef(to), "__rsub__", EdgeList(edge, group_nodes)) >>
      [] OTHER -> << >>

\* The calls of the branch `is_resource_from_group and is_resource_to_node`.
GroupToNode(direction, group_nodes, to, edge) ==
    CASE direction = INCOMING ->
            << Call(EdgeRef(edge), "__rlshift__", NodeList(group_nodes)),
               Call(NodeRef(to), "__rlshift__", EdgeList(edge, group_nodes)) >>
      [] direction = OUTGOING ->
            << Call(EdgeRef(edge), "__rrshift__", NodeList(group_nodes)),
               Call(NodeRef(to), "__rrshift__", EdgeList(edge, group_nodes)) >>
      [] direction = BIDIRECTIONAL ->
            << Call(EdgeRef(edge), "__rrshift__", NodeList(group_nodes)),
               Call(NodeRef(to), "__rlshift__", EdgeList(edge, group_nodes)) >>
      [] direction = UNDIRECTED ->
            << Call(EdgeRef(edge), "__rsub__", NodeList(group_nodes)),
               Call(NodeRef(to), "__rsub__", EdgeList(edge, group_nodes)) >>
      [] OTHER -> << >>

\* NodeToGroup with the connector attached to the first member only.
NodeToGroupFirstMember(direction, from, group_nodes, edge) ==
    LET first == IF group_nodes = << >> THEN << >>
                 ELSE <<Head(group_nodes)>> IN
    CASE direction = INCOMING ->
            << Call(NodeRef(from), "__lshift__", EdgeRef(edge)),
               Call(EdgeRef(edge), "__lshift__", NodeList(first)) >>
      [] direction = OUTGOING ->
            << Call(NodeRef(from), "__rshift__", EdgeRef(edge)),
               Call(EdgeRef(edge), "__rshift__", NodeList(first)) >>
      [] direction = BIDIRECTIONAL ->
            << Call(NodeRef(from), "__rshift__", EdgeRef(edge)),
               Call(EdgeRef(edge), "__lshift__", NodeList(first)) >>
      [] direction = UNDIRECTED ->
            << Call(NodeRef(from), "__sub__", EdgeRef(edge)),
               Call(EdgeRef(edge), "__sub__", NodeList(first)) >>
      [] OTHER -> << >>

\* The calls of the branch `is_resource_from_node and is_resource_to_group`.
NodeToGroup(direction, from, group_nodes, edge) ==
    CASE direction = INCOMING ->
            << Call(NodeRef(from), "__lshift__", EdgeRef(edge)),
               Call(EdgeRef(edge), "__lshift__", NodeList(group_nodes)) >>
      [] direction = OUTGOING ->
            << Call(NodeRef(from), "__rshift__", EdgeRef(edge)),
               Call(EdgeRef(edge), "__rshift__", NodeList(group_nodes)) >>
      [] direction = BIDIRECTIONAL ->
            << Call(NodeRef(from), "__rshift__", EdgeRef(edge)),
               Call(EdgeRef(edge), "__lshift__", NodeList(group_nodes)) >>
      [] direction = UNDIRECTED ->
            << Call(NodeRef(from), "__sub__", EdgeRef(edge)),
               Call(EdgeRef(edge), "__sub__", NodeList(group_nodes)) >>
      [] OTHER -> << >>

\* The attachment calls of one pass of the wiring loop, both endpoints
\* found: the three branches on the kinds of the endpoints; no branch takes
\* two groups.
Attach(h, relationship, from, to, edge) ==
    (IF ~IsGroup(h, from) /\ ~IsGroup(h, to)
     THEN NodeToNode(relationship.direction, from, to, edge) ELSE << >>)
    \o
    (IF IsGroup(h, from) /\ ~IsGroup(h, to)
     THEN GroupToNode(relationship.direction, GetNodes(h, from), to, edge)
     ELSE << >>)
    \o
    (IF ~IsGroup(h, from) /\ IsGroup(h, to)
     THEN NodeToGroup(relationship.direction, from, GetNodes(h, to), edge)
     ELSE << >>)

Frame(kind, todo, pid, group) ==
    [kind |-> kind, todo |-> todo, pid |-> pid, group |-> group]

Top == stack[Len(stack)]

\* The innermost loop moves on to its next resource.
Advance == [stack EXCEPT ![Len(stack)].todo = Tail(@)]

\* ------------------------------------------------------------------- Init

Init ==
    /\ pc = "idle"
    /\ error = ""
    /\ doc = <<>>
    /\ stack = <<>>
    /\ resources = <<>>
    /\ relationships = <<>>
    /\ heap = <<>>
    /\ began = [ns |-> {}, backlog |-> 0]
    /\ opens = 0
    /\ closes = 0
    /\ connectors = <<>>
    /\ ops = <<>>
    /\ wireIdx = 0

\* ---------------------------------------------------------------- actions

\* entrypoint is called: the document is loaded, the Diagram is opened and
\* the loop over diagram.resources starts.
StartRun ==
    /\ pc = "idle"
    /\ \E w \in 0..(MaxSize - Len(heap) - Len(relationships)) :
        \E d \in DocsBySize[w] :
            /\ doc' = d
            /\ stack' = <<Frame("top", d, "diagram", None)>>
    /\ pc' = "walk"
    /\ error' = ""
    /\ began' = [ns |-> DOMAIN resources, backlog |-> Len(relationships)]
    /\ opens' = 0
    /\ closes' = 0
    /\ connectors' = <<>>
    /\ ops' = <<>>
    /\ wireIdx' = 0
    /\ UNCHANGED <<resources, relationships, heap>>

\* EnterCluster with the cluster's relations appended to the backlog like
\* those of a group.
EnterClusterRelating ==
    /\ pc = "walk" /\ Top.todo # <<>>
    /\ LET resource == Head(Top.todo) IN
        /\ resource.type = CLUSTER
        /\ opens' = opens + 1
        /\ relationships' = relationships \o RelatesOf(resource, Top.pid)
        /\ stack' = Append(Advance,
                Frame("cluster", resource.of,
                      ResolvedId(Top.pid, resource.id), None))
    /\ UNCHANGED <<pc, error, doc, resources, heap, began,
                   closes, connectors, ops, wireIdx>>

\* EnterCluster with the group of the enclosing call passed down to the
\* children.
EnterClusterInGroup ==
    /\ pc = "walk" /\ Top.todo # <<>>
    /\ LET resource == Head(Top.todo) IN
        /\ resource.type = CLUSTER
        /\ opens' = opens + 1
        /\ stack' = Append(Advance,
                Frame("cluster", resource.of,
                      ResolvedId(Top.pid, resource.id), Top.group))
    /\ UNCHANGED <<pc, error, doc, resources, relationships, heap, began,
                   closes, connectors, ops, wireIdx>>

\* EnterCluster with the children given the cluster's own parent_id.
EnterClusterFlat ==
    /\ pc = "walk" /\ Top.todo # <<>>
    /\ LET resource == Head(Top.todo) IN
        /\ resource.type = CLUSTER
        /\ opens' = opens + 1
        /\ stack' = Append(Advance,
                Frame("cluster", resource.of, Top.pid, None))
    /\ UNCHANGED <<pc, error, doc, resources, relationships, heap, began,
                   closes, connectors, ops, wireIdx>>

\* EnterCluster with the cluster registered in the namespace like a group.
EnterClusterRegistered ==
    /\ pc = "walk" /\ Top.todo # <<>>
    /\ LET resource == Head(Top.todo) IN
        /\ resource.type = CLUSTER
        /\ opens' = opens + 1
        /\ heap' = Append(heap, [kind |-> "cluster", nodes |-> <<>>,
                                 cls |-> CLUSTER])
        /\ resources' = Update(resources,
                               ResolvedId(Top.pid, resource.id),
                               Len(heap) + 1)
        /\ stack' = Append(Advance,
                Frame("cluster", resource.of,
                      ResolvedId(Top.pid, resource.id), None))
    /\ UNCHANGED <<pc, error, doc, relationships, began,
                   closes, connectors, ops, wireIdx>>

\* process_resource on a CLUSTER: the scope is opened and the loop over
\* resource.of starts; the children get no group.
EnterCluster ==
    /\ pc = "walk" /\ Top.todo # <<>>
    /\ LET resource == Head(Top.todo) IN
        /\ resource.type = CLUSTER
        /\ opens' = opens + 1
        /\ stack' = Append(Advance,
                Frame("cluster", resource.of,
                      ResolvedId(Top.pid, resource.id), None))
    /\ UNCHANGED <<pc, error, doc, resources, relationships, heap, began,
                   closes, connectors, ops, wireIdx>>

\* The loop over the cluster's children is over: cluster.__exit__.
ExitCluster ==
    /\ pc = "walk" /\ Top.kind = "cluster" /\ Top.todo = <<>>
    /\ closes' = closes + 1
    /\ stack' = SubSeq(stack, 1, Len(stack) - 1)
    /\ UNCHANGED <<pc, error, doc, resources, relationships, heap, began,
                   opens, connectors, ops, wireIdx>>

\* process_resource on a GROUP: the empty group is registered, its
\* relations are appended to the backlog and the loop over resource.of
\* starts with the group passed down.
EnterGroup ==
    /\ pc = "walk" /\ Top.todo # <<>>
    /\ LET resource == Head(Top.todo)
           key == ResolvedId(Top.pid, resource.id)
           diagram_group == Len(heap) + 1
       IN
        /\ resource.type = GROUP
        /\ heap' = Append(heap, NewGroup)
        /\ resources' = Update(resources, key, diagram_group)
        /\ relationships' = relationships \o RelatesOf(resource, Top.pid)
        /\ stack' = Append(Advance,
                Frame("group", resource.of, key, diagram_group))
    /\ UNCHANGED <<pc, error, doc, began, opens, closes, connectors, ops,
                   wireIdx>>

\* The loop over the group's children is over: process_resource returns.
ExitGroup ==
    /\ pc = "walk" /\ Top.kind = "group" /\ Top.todo = <<>>
    /\ stack' = SubSeq(stack, 1, Len(stack) - 1)
    /\ UNCHANGED <<pc, error, doc, resources, relationships, heap, began,
                   opens, closes, connectors, ops, wireIdx>>

\* process_resource on a leaf whose type the catalog resolves: the node is
\* constructed and registered, its relations are appended to the backlog
\* and it joins the group passed down, if any.
ProcessLeaf ==
    /\ pc = "walk" /\ Top.todo # <<>>
    /\ LET resource == Head(Top.todo)
           key == ResolvedId(Top.pid, resource.id)
           resource_instance == Len(heap) + 1
       IN
        /\ resource.type \in KnownTypes
        /\ heap' = AddNode(Append(heap, NewNode(resource.type)),
                           Top.group, resource_instance)
        /\ resources' = Update(resources, key, resource_instance)
        /\ relationships' = relationships \o RelatesOf(resource, Top.pid)
        /\ stack' = Advance
    /\ UNCHANGED <<pc, error, doc, began, opens, closes, connectors, ops,
                   wireIdx>>

\* RaiseTypeNotFound with the identifier registered before the class is
\* looked up.
RaiseAfterRegister ==
    /\ pc = "walk" /\ Top.todo # <<>>
    /\ LET resource == Head(Top.todo) IN
        /\ resource.type \notin {CLUSTER, GROUP}
        /\ resource.type \notin KnownTypes
        /\ resources' = Update(resources,
                               ResolvedId(Top.pid, resource.id), None)
    /\ pc' = "failed"
    /\ error' = "AttributeError"
    /\ UNCHANGED <<doc, stack, relationships, heap, began, opens, closes,
                   connectors, ops, wireIdx>>

\* process_resource on a leaf whose type the catalog does not resolve:
\* get_diagram_node_class raises, and the exception leaves every active
\* process_resource call and entrypoint (the stack stays as the traceback
\* shows it, until entrypoint is left).
RaiseTypeNotFound ==
    /\ pc = "walk" /\ Top.todo # <<>>
    /\ LET resource == Head(Top.todo) IN
        /\ resource.type \notin {CLUSTER, GROUP}
        /\ resource.type \notin KnownTypes
    /\ pc' = "failed"
    /\ error' = "AttributeError"
    /\ UNCHANGED <<doc, stack, resources, relationships, heap, began,
                   opens, closes, connectors, ops, wireIdx>>

\* BeginWiring with the wiring loop inside the loop over
\* diagram.resources: it starts as soon as one resource was processed.
BeginWiringEarly ==
    /\ pc = "walk" /\ Top.kind = "top" /\ Len(Top.todo) < Len(doc)
    /\ pc' = "wire"
    /\ stack' = <<>>
    /\ wireIdx' = 1
    /\ UNCHANGED <<error, doc, resources, relationships, heap, began,
                   opens, closes, connectors, ops>>

\* The loop over diagram.resources is over: the wiring loop starts.
BeginWiring ==
    /\ pc = "walk" /\ Top.kind = "top" /\ Top.todo = <<>>
    /\ pc' = "wire"
    /\ stack' = <<>>
    /\ wireIdx' = 1
    /\ UNCHANGED <<error, doc, resources, relationships, heap, began,
                   opens, closes, connectors, ops>>

\* Wire with the test of the target left out.
WireUnchecked ==
    /\ pc = "wire" /\ wireIdx <= Len(relationships)
    /\ LET relationship == relationships[wireIdx]
           edge == Len(connectors) + 1
           resource_from_instance == Get(resources, relationship.from_)
           resource_to_instance == Get(resources, relationship.to)
       IN
        /\ connectors' = Append(connectors, Edge(relationship))
        /\ ops' = ops \o Attach(heap, relationship, resource_from_instance,
                                resource_to_instance, edge)
        /\ wireIdx' = wireIdx + 1
        /\ UNCHANGED <<pc, error>>
    /\ UNCHANGED <<doc, stack, resources, relationships, heap, began,
                   opens, closes>>

\* One pass of the wiring loop whose target is in the namespace: the
\* connector is constructed and attached.  (A source that is not in the
\* namespace is taken for a node, and the attachment call on None raises.)
Wire ==
    /\ pc = "wire" /\ wireIdx <= Len(relationships)
    /\ LET relationship == relationships[wireIdx]
           edge == Len(connectors) + 1
           resource_from_instance == Get(resources, relationship.from_)
           resource_to_instance == Get(resources, relationship.to)
       IN
        /\ resource_to_instance # None
        /\ connectors' = Append(connectors, Edge(relationship))
        /\ IF resource_from_instance = None
           THEN /\ pc' = "failed"
                /\ error' = "AttributeError"
                /\ UNCHANGED <<ops, wireIdx>>
           ELSE /\ ops' = ops \o Attach(heap, relationship,
                                resource_from_instance,
                                resource_to_instance, edge)
                /\ wireIdx' = wireIdx + 1
                /\ UNCHANGED <<pc, error>>
    /\ UNCHANGED <<doc, stack, resources, relationships, heap, began,
                   opens, closes>>

\* One pass of the wiring loop whose target is not in the namespace: the
\* connector is constructed, then ValueError is raised and leaves
\* entrypoint.
RaiseUnresolved ==
    /\ pc = "wire" /\ wireIdx <= Len(relationships)
    /\ LET relationship == relationships[wireIdx] IN
        /\ Get(resources, relationship.to) = None
        /\ connectors' = Append(connectors, Edge(relationship))
    /\ pc' = "failed"
    /\ error' = "ValueError"
    /\ UNCHANGED <<doc, stack, resources, relationships, heap, began,
                   opens, closes, ops, wireIdx>>

\* The wiring loop is over and the Diagram is closed: the two globals are
\* rebound to an empty dict and an empty list.
Finish ==
    /\ pc = "wire" /\ wireIdx > Len(relationships)
    /\ resources' = << >>
    /\ relationships' = << >>
    /\ pc' = "done"
    /\ UNCHANGED <<error, doc, stack, heap, began, opens, closes,
                   connectors, ops, wireIdx>>

\* entrypoint is left, by its return or by the exception: the locals of the
\* run (the document, the Diagram and what it recorded) are gone; the module
\* globals stay, and so do the objects they hold (none after a return).
Return ==
    /\ pc \in {"done", "failed"}
    /\ pc' = "idle"
    /\ error' = ""
    /\ doc' = <<>>
    /\ began' = [ns |-> {}, backlog |-> 0]
    /\ opens' = 0
    /\ closes' = 0
    /\ connectors' = <<>>
    /\ ops' = <<>>
    /\ wireIdx' = 0
    /\ stack' = << >>
    /\ heap' = IF pc = "done" THEN << >> ELSE heap
    /\ UNCHANGED <<resources, relationships>>

Next ==
    \/ StartRun
    \/ EnterCluster
    \/ ExitCluster
    \/ EnterGroup
    \/ ExitGroup
    \/ ProcessLeaf
    \/ RaiseTypeNotFound
    \/ BeginWiring
    \/ Wire
    \/ RaiseUnresolved
    \/ Finish
    \/ Return

Spec == Init /\ [][Next]_vars

\* ----------------------------------------------------------------- claims

\* The wiring loop stands on a relationship record.
AtRecord == pc = "wire" /\ wireIdx <= Len(relationships)

\* C1: when a run starts, the namespace and the backlog are both empty,
\* whatever the earlier runs of the process did (completed or aborted).
C1_EmptyAtRunStart ==
    pc \in {"walk", "wire"} => began.ns = {} /\ began.backlog = 0

\* C2: once the tree walk is over, by its return or by an exception, as
\* many scopes were closed (cluster.__exit__) as were opened
\* (cluster.__enter__).
C2_ScopeBalance ==
    pc \in {"wire", "done", "failed"} => opens = closes

\* C3: in a run that started with an empty namespace, every registration
\* made a distinct identifier: the namespace has as many entries as groups
\* and nodes were registered, none overwrote another.
C3_DistinctIdentifiers ==
    (pc \in {"walk", "wire"} /\ began.ns = {})
        => Cardinality(DOMAIN resources) = Len(heap)

\* C4: a pass of the wiring loop on a record whose `to` is not a key of the
\* namespace raises the unresolved-target error (ValueError) and issues no
\* attachment call.
C4_MissingTargetFails ==
    [][(AtRecord /\ relationships[wireIdx].to \notin DOMAIN resources)
        => (pc' = "failed" /\ error' = "ValueError" /\ ops' = ops)]_vars

\* C4 witness: the run failed on a record with a missing target after it
\* had wired an earlier one.
C4_Witness ==
    /\ pc = "failed" /\ error = "ValueError"
    /\ wireIdx > 1
    /\ relationships[wireIdx].to \notin DOMAIN resources
    /\ ops # << >>

\* C5: a run that aborts on an unresolved target has issued no attachment
\* call at all, also not for the records before the failing one.
C5_AtomicFailure ==
    (pc = "failed" /\ error = "ValueError") => ops = << >>

\* The relationship records a resource declares, read off the document.
DeclaredBy(resource, parent_id) ==
    [k \in 1..Len(resource.relates) |->
        [from_ |-> parent_id \o "." \o resource.id,
         to |-> "diagram." \o resource.relates[k].to,
         direction |-> resource.relates[k].direction,
         label |-> resource.relates[k].label,
         color |-> resource.relates[k].color,
         style |-> resource.relates[k].style]]

RECURSIVE PreOrder(_, _)
\* The relationship records of a list of resources in pre-order: those of
\* a group or leaf in declared order, then those of its children, then
\* those of its later siblings.  (A cluster contributes its children's.)
PreOrder(rs, parent_id) ==
    IF rs = << >> THEN << >>
    ELSE LET resource == Head(rs) IN
         (IF resource.type = CLUSTER THEN << >>
          ELSE DeclaredBy(resource, parent_id))
         \o PreOrder(resource.of, parent_id \o "." \o resource.id)
         \o PreOrder(Tail(rs), parent_id)

IsPrefix(s, t) == Len(s) <= Len(t) /\ s = SubSeq(t, 1, Len(s))

\* The records the current run appended to the backlog.
Appended == SubSeq(relationships, began.backlog + 1, Len(relationships))

\* The connector an attachment call is about.
ConnectorOf(call) ==
    IF call.recv.kind = "edge" THEN call.recv.edge ELSE call.other.edge

\* C6: the records a run appends to the backlog are the pre-order
\* traversal of its document (a prefix of it while the walk goes on or
\* after it failed), the k-th connector constructed is the one of the k-th
\* record of the backlog, and the attachment calls are issued connector
\* after connector.
C6_TraversalOrder ==
    /\ pc \in {"walk", "failed"} =>
            IsPrefix(Appended, PreOrder(doc, "diagram"))
    /\ pc = "wire" => Appended = PreOrder(doc, "diagram")
    /\ pc \in {"wire", "failed"} =>
        /\ Len(connectors) <= Len(relationships)
        /\ \A k \in 1..Len(connectors) :
                connectors[k] = [label |-> relationships[k].label,
                                 color |-> relationships[k].color,
                                 style |-> relationships[k].style]
        /\ \A i, j \in 1..Len(ops) :
                i <= j => ConnectorOf(ops[i]) <= ConnectorOf(ops[j])

\* C6 witness: a resource with a relation and a later sibling with another
\* one were walked and both relations wired, the first one's first.
C6_Witness ==
    /\ pc = "wire" /\ wireIdx > Len(relationships)
    /\ began.backlog = 0
    /\ Len(relationships) = 2
    /\ relationships[1].from_ = "diagram.a"
    /\ relationships[2].from_ = "diagram.b"
    /\ relationships[1].direction # relationships[2].direction
    /\ Len(connectors) = 2
    /\ Len(ops) = 4

\* Both endpoints of the record the wiring loop stands on are in the
\* namespace.
Resolved ==
    /\ AtRecord
    /\ relationships[wireIdx].from_ \in DOMAIN resources
    /\ relationships[wireIdx].to \in DOMAIN resources

FromHandle == resources[relationships[wireIdx].from_]
ToHandle == resources[relationships[wireIdx].to]

\* The table of section 4.2: the attachment of the source to the connector
\* and of the connector to the target (reverse is <<, forward is >>,
\* undirected is -).
FormsOf(direction) ==
    CASE direction = INCOMING -> <<"__lshift__", "__lshift__">>
      [] direction = OUTGOING -> <<"__rshift__", "__rshift__">>
      [] direction = BIDIRECTIONAL -> <<"__rshift__", "__lshift__">>
      [] direction = UNDIRECTED -> <<"__sub__", "__sub__">>

\* The attachment calls a step issued.
Issued == SubSeq(ops', Len(ops) + 1, Len(ops'))

\* C7: a record whose endpoints are both single nodes gets exactly two
\* attachment calls, source with connector then connector with target, of
\* the forms the table gives for its direction.
C7_DirectionMapping ==
    [][(Resolved /\ heap[FromHandle].kind = "node"
                 /\ heap[ToHandle].kind = "node")
        => Issued =
            << [recv |-> [kind |-> "node", nodes |-> <<FromHandle>>, edge |-> 0],
                method |-> FormsOf(relationships[wireIdx].direction)[1],
                other |-> [kind |-> "edge", nodes |-> << >>, edge |-> wireIdx]],
               [recv |-> [kind |-> "edge", nodes |-> << >>, edge |-> wireIdx],
                method |-> FormsOf(relationships[wireIdx].direction)[2],
                other |-> [kind |-> "node", nodes |-> <<ToHandle>>, edge |-> 0]]
            >>]_vars

\* C7 witness: a BIDIRECTIONAL record between two different nodes was
\* wired.
C7_Witness ==
    /\ pc = "wire" /\ wireIdx = 2
    /\ relationships[1].direction = BIDIRECTIONAL
    /\ relationships[1].from_ # relationships[1].to
    /\ Len(ops) = 2
    /\ ops[1].recv.kind = "node" /\ ops[2].other.kind = "node"
    /\ ops[1].method = "__rshift__" /\ ops[2].method = "__lshift__"

\* The edges the rendering backend draws for the attachment calls of one
\* connector.  A node attached to the connector becomes its source, and
\* the connector attached to a node or to a list of nodes draws one edge
\* from the source to each; the connector attached to a list of nodes in
\* the mirrored form yields one edge object per node, and a node attached
\* to that list draws one edge from each of them to the node.
DrawnBy(calls) ==
    IF Len(calls) # 2 THEN << >>
    ELSE IF calls[1].recv.kind = "node" /\ calls[1].other.kind = "edge"
            /\ calls[2].recv.kind = "edge"
            /\ calls[2].recv.edge = calls[1].other.edge
    THEN [j \in 1..Len(calls[2].other.nodes) |->
            [tail |-> calls[1].recv.nodes[1],
             head |-> calls[2].other.nodes[j],
             edge |-> calls[2].recv.edge]]
    ELSE IF calls[1].recv.kind = "edge" /\ calls[1].other.kind = "nodes"
            /\ calls[2].recv.kind = "node" /\ calls[2].other.kind = "edges"
            /\ calls[2].other.edge = calls[1].recv.edge
    THEN [j \in 1..Len(calls[2].other.nodes) |->
            [tail |-> calls[2].other.nodes[j],
             head |-> calls[2].recv.nodes[1],
             edge |-> calls[2].other.edge]]
    ELSE << >>

\* C8: a record from a single node to a group of N members draws exactly
\* N edges, one from the node to each member in the group's order, all of
\* the connector that carries the record's label, color and style,
\* whatever the direction.
C8_FanOut ==
    [][(Resolved /\ heap[FromHandle].kind = "node"
                 /\ heap[ToHandle].kind = "group")
        => /\ DrawnBy(Issued) =
                [j \in 1..Len(heap[ToHandle].nodes) |->
                    [tail |-> FromHandle,
                     head |-> heap[ToHandle].nodes[j],
                     edge |-> wireIdx]]
           /\ Len(connectors') = wireIdx
           /\ connectors'[wireIdx] =
                [label |-> relationships[wireIdx].label,
                 color |-> relationships[wireIdx].color,
                 style |-> relationships[wireIdx].style]]_vars

\* C8 witness: an UNDIRECTED record from a node to a group of two members
\* was wired.
C8_Witness ==
    /\ pc = "wire" /\ wireIdx = 2
    /\ relationships[1].direction = UNDIRECTED
    /\ relationships[1].to \in DOMAIN resources
    /\ heap[resources[relationships[1].to]].kind = "group"
    /\ Len(heap[resources[relationships[1].to]].nodes) = 2
    /\ Len(DrawnBy(ops)) = 2

\* C9: a record whose endpoints are both groups makes the run fail; it is
\* not passed over.
C9_GroupToGroupRejected ==
    [][(Resolved /\ heap[FromHandle].kind = "group"
                 /\ heap[ToHandle].kind = "group")
        => pc' = "failed"]_vars

\* The walk stands on a leaf whose type the element catalog does not have.
AtUnknownLeaf ==
    /\ pc = "walk" /\ Top.todo # << >>
    /\ Head(Top.todo).type \notin {CLUSTER, GROUP} \cup KnownTypes

\* C10: on a leaf of unknown type the run fails with the lookup's error
\* and registers nothing, appends nothing and wires nothing; the failed
\* run does nothing more before entrypoint is left.
C10_UnknownTypeAborts ==
    [][/\ AtUnknownLeaf =>
            /\ pc' = "failed" /\ error' = "AttributeError"
            /\ resources' = resources
            /\ relationships' = relationships
            /\ connectors' = << >> /\ ops' = << >>
       /\ pc = "failed" =>
            /\ pc' = "idle"
            /\ resources' = resources
            /\ relationships' = relationships]_vars

\* C10 witness: the run failed on a leaf of unknown type that declares
\* relations and has an identifier no resource was registered under.
C10_Witness ==
    /\ pc = "failed" /\ error = "AttributeError"
    /\ Head(Top.todo).relates # << >>
    /\ (Top.pid \o "." \o Head(Top.todo).id) \notin DOMAIN resources
    /\ resources # << >>
RECURSIVE Addressable(_, _)
\* The resolved identifiers of the groups and leaves of a list of
\* resources, read off the document.
Addressable(rs, parent_id) ==
    IF rs = << >> THEN {}
    ELSE LET resource == Head(rs)
             path == parent_id \o "." \o resource.id
         IN (IF resource.type = CLUSTER THEN {} ELSE {path})
            \cup Addressable(resource.of, path)
            \cup Addressable(Tail(rs), parent_id)

\* C11: while the tree is walked no connector is constructed, no endpoint
\* is looked up and no attachment call is issued; when the wiring loop
\* runs every group and leaf of the document is registered, so a run never
\* fails as unresolved on a target that names a group or leaf of its
\* document, wherever it is declared.
C11_DeferredResolution ==
    /\ pc = "walk" => (connectors = << >> /\ ops = << >> /\ wireIdx = 0)
    /\ pc = "wire" => Addressable(doc, "diagram") \subseteq DOMAIN resources
    /\ (pc = "failed" /\ error = "ValueError") =>
            relationships[wireIdx].to \notin Addressable(doc, "diagram")

\* C11 witness: a relation of the leaf a.a to its later sibling a.b was
\* wired.
C11_Witness ==
    /\ pc = "wire" /\ wireIdx = 2
    /\ began.ns = {}
    /\ relationships[1].from_ = "diagram.a.a"
    /\ relationships[1].to = "diagram.a.b"
    /\ resources["diagram.a.a"] < resources["diagram.a.b"]
    /\ Len(ops) = 2
RECURSIVE ClusterPaths(_, _)
\* The paths of the clusters of a list of resources, read off the
\* document.
ClusterPaths(rs, parent_id) ==
    IF rs = << >> THEN {}
    ELSE LET resource == Head(rs)
             path == parent_id \o "." \o resource.id
         IN (IF resource.type = CLUSTER THEN {path} ELSE {})
            \cup ClusterPaths(resource.of, path)
            \cup ClusterPaths(Tail(rs), parent_id)

\* The walk is about to process a cluster.
AtCluster ==
    /\ pc = "walk" /\ Top.todo # << >>
    /\ Head(Top.todo).type = CLUSTER

\* C12: in every state of a run the keys of the namespace are the keys it
\* had when the run began and resolved identifiers of groups and leaves of
\* the document; processing a cluster leaves the namespace and the objects
\* as they are; a record whose target is the path of a cluster, and of no
\* group or leaf, fails as an unresolved target.
C12_ClustersNotAddressable ==
    [][ /\ pc' \in {"walk", "wire", "failed", "done"} =>
            DOMAIN resources' \subseteq
                began'.ns \cup Addressable(doc', "diagram")
        /\ AtCluster => (resources' = resources /\ heap' = heap)
        /\ (/\ AtRecord
            /\ relationships[wireIdx].to \in ClusterPaths(doc, "diagram")
            /\ relationships[wireIdx].to \notin
                    began.ns \cup Addressable(doc, "diagram"))
           => (pc' = "failed" /\ error' = "ValueError") ]_vars

\* C12 witness: a run failed as unresolved on a target that is the path of
\* the cluster it had opened.
C12_Witness ==
    /\ pc = "failed" /\ error = "ValueError"
    /\ began.ns = {}
    /\ opens = 1
    /\ doc[1].type = CLUSTER
    /\ relationships[wireIdx].to = "diagram.a"
    /\ relationships[wireIdx].to \in ClusterPaths(doc, "diagram")
\* C13: in a run that began with an empty namespace and an empty backlog,
\* the from_ of every record of the backlog is a key of the namespace, in
\* every state of the walk and of the wiring loop (and in the state a
\* failure leaves), so the lookup of from_ finds an object at every record
\* and a run past the walk fails only on an unresolved target.
C13_FromRegistered ==
    (began.ns = {} /\ began.backlog = 0) =>
        /\ \A k \in 1..Len(relationships) :
                relationships[k].from_ \in DOMAIN resources
        /\ AtRecord => Get(resources, relationships[wireIdx].from_) # None
        /\ (pc = "failed" /\ wireIdx > 0) => error = "ValueError"

\* C13 witness: the wiring loop looked up the from_ of the records of two
\* different resources, in a run that began empty.
C13_Witness ==
    /\ pc = "wire" /\ wireIdx = 3
    /\ began.ns = {} /\ began.backlog = 0
    /\ Len(relationships) = 2
    /\ relationships[1].from_ # relationships[2].from_
    /\ Len(connectors) = 2
\* The form Python dispatches to the right operand when the left operand
\* of an attachment is a list: the batch form of the same attachment.
BatchOf(form) ==
    CASE form = "__lshift__" -> "__rlshift__"
      [] form = "__rshift__" -> "__rrshift__"
      [] form = "__sub__" -> "__rsub__"

\* C14: a record from a group of N members to a single node gets two
\* attachment calls, the list of members with the connector then the
\* resulting list with the target, in the batch forms of the attachments
\* the table gives for its direction, and they draw exactly N edges, one
\* from each member, in the group's order, to the target.
C14_FanIn ==
    [][(Resolved /\ heap[FromHandle].kind = "group"
                 /\ heap[ToHandle].kind = "node")
        => /\ Issued =
                << [recv |-> [kind |-> "edge", nodes |-> << >>,
                              edge |-> wireIdx],
                    method |->
                        BatchOf(FormsOf(relationships[wireIdx].direction)[1]),
                    other |-> [kind |-> "nodes",
                               nodes |-> heap[FromHandle].nodes,
                               edge |-> 0]],
                   [recv |-> [kind |-> "node", nodes |-> <<ToHandle>>,
                              edge |-> 0],
                    method |->
                        BatchOf(FormsOf(relationships[wireIdx].direction)[2]),
                    other |-> [kind |-> "edges",
                               nodes |-> heap[FromHandle].nodes,
                               edge |-> wireIdx]] >>
           /\ DrawnBy(Issued) =
                [j \in 1..Len(heap[FromHandle].nodes) |->
                    [tail |-> heap[FromHandle].nodes[j],
                     head |-> ToHandle,
                     edge |-> wireIdx]]]_vars

\* C14 witness: a BIDIRECTIONAL record from a group of two members to a
\* node was wired.
C14_Witness ==
    /\ pc = "wire" /\ wireIdx = 2
    /\ relationships[1].direction = BIDIRECTIONAL
    /\ heap[resources[relationships[1].from_]].kind = "group"
    /\ Len(heap[resources[relationships[1].from_]].nodes) = 2
    /\ heap[resources[relationships[1].to]].kind = "node"
    /\ ops[1].method = "__rrshift__" /\ ops[2].method = "__rlshift__"
    /\ Len(DrawnBy(ops)) = 2
RECURSIVE Enclosing(_)
\* The resource of the document whose children the call at depth k + 1
\* loops over: the one the loop at depth k has reached.
Enclosing(k) ==
    LET list == IF k = 1 THEN doc ELSE Enclosing(k - 1).of
    IN list[Len(list) - Len(stack[k].todo)]

RECURSIVE PathOf(_)
\* "diagram" followed by the local ids of the resources that enclose the
\* calls at depth k, outermost first, joined by dots.
PathOf(k) ==
    IF k = 1 THEN "diagram"
    ELSE PathOf(k - 1) \o "." \o Enclosing(k - 1).id

\* The walk is about to process a group, or a leaf of a known type.
AtRegistering ==
    /\ pc = "walk" /\ Top.todo # << >>
    /\ Head(Top.todo).type \in {GROUP} \cup KnownTypes

\* C15: the parent_id of the calls at every depth is "diagram" followed
\* by the local ids of the enclosing clusters and groups in nesting order
\* joined by dots ("diagram" alone at the top), and a group or leaf is
\* registered under that parent_id, a dot and its local id, and under no
\* other key.
C15_ParentPath ==
    [][ /\ \A k \in 1..Len(stack) : stack[k].pid = PathOf(k)
        /\ AtRegistering =>
            LET key == PathOf(Len(stack)) \o "." \o Head(Top.todo).id IN
            /\ DOMAIN resources' = DOMAIN resources \cup {key}
            /\ resources'[key] = Len(heap) + 1
            /\ \A other \in DOMAIN resources \ {key} :
                    resources'[other] = resources[other] ]_vars

\* C15 witness: a leaf inside a group inside a cluster, all with the local
\* id a, was registered under diagram.a.a.a.
C15_Witness ==
    /\ pc = "walk" /\ Len(stack) = 3
    /\ stack[2].kind = "cluster" /\ stack[2].pid = "diagram.a"
    /\ stack[3].kind = "group" /\ stack[3].pid = "diagram.a.a"
    /\ "diagram.a.a.a" \in DOMAIN resources
    /\ heap[resources["diagram.a.a.a"]].kind = "node"
RECURSIVE CountObjects(_)
\* The number of groups and leaves in a list of resources.
CountObjects(rs) ==
    IF rs = << >> THEN 0
    ELSE (IF Head(rs).type = CLUSTER THEN 0 ELSE 1)
         + CountObjects(Head(rs).of) + CountObjects(Tail(rs))

RECURSIVE DirectLeaves(_, _)
\* The objects of the leaves declared directly in a list `of`, in
\* declaration order; objects are numbered in the order of the document,
\* `before` of them preceding the list.
DirectLeaves(of, before) ==
    IF of = << >> THEN << >>
    ELSE IF Head(of).type \notin {CLUSTER, GROUP}
    THEN <<before + 1>> \o DirectLeaves(Tail(of), before + 1)
    ELSE DirectLeaves(Tail(of), before + CountObjects(<<Head(of)>>))

RECURSIVE ObjectsOf(_, _)
\* The objects a list of resources declares, in the order of the document:
\* a group with the leaves declared directly in its `of`, a leaf with its
\* type, nothing for a cluster.
ObjectsOf(rs, before) ==
    IF rs = << >> THEN << >>
    ELSE LET resource == Head(rs) IN
         IF resource.type = CLUSTER
         THEN ObjectsOf(resource.of, before)
              \o ObjectsOf(Tail(rs), before + CountObjects(resource.of))
         ELSE IF resource.type = GROUP
         THEN << [kind |-> "group",
                  nodes |-> DirectLeaves(resource.of, before + 1),
                  cls |-> GROUP] >>
              \o ObjectsOf(resource.of, before + 1)
              \o ObjectsOf(Tail(rs),
                           before + 1 + CountObjects(resource.of))
         ELSE << [kind |-> "node", nodes |-> << >>,
                  cls |-> resource.type] >>
              \o ObjectsOf(Tail(rs), before + 1)

\* The walk is about to process a group.
AtGroup ==
    /\ pc = "walk" /\ Top.todo # << >>
    /\ Head(Top.todo).type = GROUP

\* C16: a group is registered as a new object with no member while all its
\* children are still to be processed; when the wiring loop starts, the
\* members of every group of the document are the leaves declared
\* directly in its `of`, in declaration order, and no leaf under a cluster
\* or under another group inside it.
C16_GroupMembers ==
    [][ /\ AtGroup =>
            /\ Len(heap') = Len(heap) + 1
            /\ heap'[Len(heap')].kind = "group"
            /\ heap'[Len(heap')].nodes = << >>
            /\ resources'[PathOf(Len(stack)) \o "." \o Head(Top.todo).id]
                    = Len(heap')
            /\ stack'[Len(stack')].todo = Head(Top.todo).of
        /\ pc = "wire" =>
            LET before == Len(heap) - CountObjects(doc) IN
            SubSeq(heap, before + 1, Len(heap)) = ObjectsOf(doc, before)
      ]_vars

\* C16 witness: the wiring loop started on a group that holds a cluster
\* with a leaf and then a leaf of its own; only the second is its member.
C16_Witness ==
    /\ pc = "wire" /\ wireIdx = 1
    /\ opens = 1
    /\ Len(heap) = 3
    /\ heap[1].kind = "group" /\ heap[2].kind = "node"
    /\ heap[1].nodes = <<3>>
RECURSIVE RelationsAt(_, _, _)
\* The number of relations the groups and leaves of a list of resources
\* declare under the resolved identifier `path`.
RelationsAt(rs, parent_id, path) ==
    IF rs = << >> THEN 0
    ELSE LET resource == Head(rs)
             own == parent_id \o "." \o resource.id
         IN (IF resource.type # CLUSTER /\ own = path
             THEN Len(resource.relates) ELSE 0)
            + RelationsAt(resource.of, own, path)
            + RelationsAt(Tail(rs), parent_id, path)

RECURSIVE RelationsOn(_)
\* The number of relations the groups and leaves of a list of resources
\* declare.
RelationsOn(rs) ==
    IF rs = << >> THEN 0
    ELSE (IF Head(rs).type # CLUSTER THEN Len(Head(rs).relates) ELSE 0)
         + RelationsOn(Head(rs).of) + RelationsOn(Tail(rs))

\* C17: processing a cluster appends nothing to the backlog and does not
\* fail, whatever relations the cluster declares; after the walk the run
\* has appended as many records as the groups and leaves of the document
\* declare relations, as many from each identifier as are declared under
\* it, and the wiring loop constructs no connector beyond those records.
C17_ClusterRelatesDropped ==
    [][ /\ AtCluster =>
            /\ relationships' = relationships
            /\ connectors' = connectors
            /\ pc' = "walk" /\ error' = ""
        /\ pc = "wire" =>
            /\ Len(Appended) = RelationsOn(doc)
            /\ \A path \in Addressable(doc, "diagram")
                           \cup ClusterPaths(doc, "diagram") :
                Cardinality({k \in 1..Len(Appended) :
                                Appended[k].from_ = path})
                    = RelationsAt(doc, "diagram", path)
            /\ Len(connectors) <= began.backlog + RelationsOn(doc)
      ]_vars

\* C17 witness: the wiring loop went through the backlog of a document
\* whose cluster declares a relation; the only record, and the only
\* connector, is the one of the leaf that follows the cluster.
C17_Witness ==
    /\ pc = "wire" /\ wireIdx = 2
    /\ began.backlog = 0
    /\ opens = 1 /\ closes = 1
    /\ doc[1].type = CLUSTER /\ Len(doc[1].relates) = 1
    /\ Len(relationships) = 1
    /\ Len(connectors) = 1

====
